---- MODULE Spec2Model ----
(***************************************************************************)
(* Model of src/transform_json.py: the decoder that turns a document of    *)
(* type-tagged values (S, N, BOOL, NULL, L, M) into plain data.            *)
(*                                                                         *)
(* Python values are records with a field t naming the Python type:        *)
(*   str   [t |-> "str",   s |-> <<"h","i">>]   (a sequence of characters) *)
(*   int   [t |-> "int",   v |-> 7]                                        *)
(*   float [t |-> "float", neg |-> FALSE, digits |-> 5, exp |-> -1]  (0.5) *)
(*   bool  [t |-> "bool",  b |-> TRUE]                                     *)
(*   None  [t |-> "None"]                                                  *)
(*   list  [t |-> "list",  items |-> <<v1, v2>>]                           *)
(*   dict  [t |-> "dict",  entries |-> << <<k1, v1>>, <<k2, v2>> >>]       *)
(* A dict keeps its entries in insertion order, as Python's dict does, and *)
(* its keys (sequences of characters) are pairwise distinct.  A call that  *)
(* raises yields [t |-> "raise", exc |-> <exception class>].               *)
(***************************************************************************)
EXTENDS Integers, Sequences, FiniteSets, TLC

(***************************************************************************)
(* Python values                                                           *)
(***************************************************************************)
Str(s) == [t |-> "str", s |-> s]

PyInt(n) == [t |-> "int", v |-> n]

PyFloat(neg, digits, exp) == [t |-> "float", neg |-> neg, digits |-> digits, exp |-> exp]

PyBool(b) == [t |-> "bool", b |-> b]

None == [t |-> "None"]

List(items) == [t |-> "list", items |-> items]

Dict(entries) == [t |-> "dict", entries |-> entries]

Raise(exc) == [t |-> "raise", exc |-> exc]

Unbound == [t |-> "unbound"]

IsRaise(v) == v.t = "raise"

\* isinstance(value, str), isinstance(value, list), isinstance(value, dict)
IsStr(v) == v.t = "str"

IsList(v) == v.t = "list"

IsDict(v) == v.t = "dict"

\* Python truthiness, as used by `not value`
Truthy(v) ==
  CASE v.t = "str" -> v.s # <<>>
    [] v.t = "int" -> v.v # 0
    [] v.t = "float" -> v.digits # 0
    [] v.t = "bool" -> v.b
    [] v.t = "None" -> FALSE
    [] v.t = "list" -> v.items # <<>>
    [] v.t = "dict" -> v.entries # <<>>

(***************************************************************************)
(* Characters and strings                                                  *)
(***************************************************************************)
Upper == <<"A","B","C","D","E","F","G","H","I","J","K","L","M",
           "N","O","P","Q","R","S","T","U","V","W","X","Y","Z">>

Lower == <<"a","b","c","d","e","f","g","h","i","j","k","l","m",
           "n","o","p","q","r","s","t","u","v","w","x","y","z">>

Digits == <<"0","1","2","3","4","5","6","7","8","9">>

Whitespace == {" ", "\t", "\n", "\r"}

InSeq(c, seq) == \E n \in 1..Len(seq) : seq[n] = c

IndexOf(c, seq) == CHOOSE n \in 1..Len(seq) : seq[n] = c

IsDigit(c) == InSeq(c, Digits)

DigitVal(c) == IndexOf(c, Digits) - 1

\* ord(c): the code point, which orders strings under sorted()
Ord(c) ==
  CASE InSeq(c, Upper) -> 64 + IndexOf(c, Upper)
    [] InSeq(c, Lower) -> 96 + IndexOf(c, Lower)
    [] InSeq(c, Digits) -> 47 + IndexOf(c, Digits)
    [] c = "\t" -> 9
    [] c = "\n" -> 10
    [] c = "\r" -> 13
    [] c = " " -> 32
    [] c = "+" -> 43
    [] c = "-" -> 45
    [] c = "." -> 46
    [] c = ":" -> 58
    [] c = "_" -> 95

\* str.lower() on one character
LowerChar(c) == IF InSeq(c, Upper) THEN Lower[IndexOf(c, Upper)] ELSE c

\* str.lower()
lower(s) == [n \in 1..Len(s) |-> LowerChar(s[n])]

Min(S) == CHOOSE n \in S : \A m \in S : n <= m

Max(S) == CHOOSE n \in S : \A m \in S : m <= n

\* s without what lies outside its first and last position in keep
Between(s, keep) == IF keep = {} THEN <<>> ELSE SubSeq(s, Min(keep), Max(keep))

\* str.strip(): drop the leading and the trailing whitespace
strip(s) == Between(s, {n \in 1..Len(s) : s[n] \notin Whitespace})

\* s < t for two Python strings: code point order, a proper prefix first
StrLess(s, u) ==
  \/ /\ Len(s) < Len(u)
     /\ \A n \in 1..Len(s) : s[n] = u[n]
  \/ \E n \in 1..Len(s) :
       /\ n <= Len(u)
       /\ \A m \in 1..(n-1) : s[m] = u[m]
       /\ Ord(s[n]) < Ord(u[n])

\* the number of leading characters of s that are "0"
LeadingZeros(s) ==
  IF \A n \in 1..Len(s) : s[n] = "0" THEN Len(s)
  ELSE Min({n \in 1..Len(s) : s[n] # "0"}) - 1

Drop(s, n) == SubSeq(s, n + 1, Len(s))

\* the value of a non-empty sequence of decimal digits
RECURSIVE DigitsValue(_)
DigitsValue(s) ==
  IF s = <<>> THEN 0
  ELSE 10 * DigitsValue(SubSeq(s, 1, Len(s) - 1)) + DigitVal(s[Len(s)])

AllDigits(s) == \A n \in 1..Len(s) : IsDigit(s[n])

(***************************************************************************)
(* sanitize_key, sanitize_value                                            *)
(***************************************************************************)
sanitize_key(key) == strip(key)

sanitize_value(value) == IF IsStr(value) THEN Str(strip(value.s)) ELSE value

(***************************************************************************)
(* Each function below is written as a chain of operators: the value a     *)
(* Python local is bound to is the argument of the operator that models    *)
(* the rest of the function, so that a local read several times is         *)
(* computed once.                                                          *)
(***************************************************************************)

(***************************************************************************)
(* is_rfc3339, rfc3339_to_epoch                                            *)
(*                                                                         *)
(* datetime.strptime(s, "%Y-%m-%dT%H:%M:%SZ") compiles the format to a     *)
(* case-insensitive regular expression that must match the whole string:   *)
(*   %Y \d\d\d\d            %m 1[0-2]|0[1-9]|[1-9]                         *)
(*   %d 3[0-1]|[1-2]\d|0[1-9]|[1-9]| [1-9]                                 *)
(*   %H 2[0-3]|[0-1]\d|\d   %M [0-5]\d|\d   %S 6[0-1]|[0-5]\d|\d           *)
(* and then builds a datetime, which rejects year 0, a day the month does  *)
(* not have and a second above 59, all with ValueError.                    *)
(***************************************************************************)
\* seconds east of UTC of the process's local timezone, which time.mktime uses
LocalUtcOffset == 0

\* the widths (1 or 2) of the month, day, hour, minute and second fields
FieldLens == [1..5 -> 1..2]

\* where field n (1 month, 2 day, 3 hour, 4 minute, 5 second) starts under widths f
FieldStart(f, n) ==
  CASE n = 1 -> 6
    [] n = 2 -> 7 + f[1]
    [] n = 3 -> 8 + f[1] + f[2]
    [] n = 4 -> 9 + f[1] + f[2] + f[3]
    [] n = 5 -> 10 + f[1] + f[2] + f[3] + f[4]

FieldAt(s, start, len) == SubSeq(s, start, start + len - 1)

Field(s, f, n) == FieldAt(s, FieldStart(f, n), f[n])

MonthMatch(w) ==
  \/ Len(w) = 2 /\ w[1] = "1" /\ w[2] \in {"0", "1", "2"}
  \/ Len(w) = 2 /\ w[1] = "0" /\ IsDigit(w[2]) /\ w[2] # "0"
  \/ Len(w) = 1 /\ IsDigit(w[1]) /\ w[1] # "0"

DayMatch(w) ==
  \/ Len(w) = 2 /\ w[1] = "3" /\ w[2] \in {"0", "1"}
  \/ Len(w) = 2 /\ w[1] \in {"1", "2"} /\ IsDigit(w[2])
  \/ Len(w) = 2 /\ w[1] \in {"0", " "} /\ IsDigit(w[2]) /\ w[2] # "0"
  \/ Len(w) = 1 /\ IsDigit(w[1]) /\ w[1] # "0"

HourMatch(w) ==
  \/ Len(w) = 2 /\ w[1] = "2" /\ w[2] \in {"0", "1", "2", "3"}
  \/ Len(w) = 2 /\ w[1] \in {"0", "1"} /\ IsDigit(w[2])
  \/ Len(w) = 1 /\ IsDigit(w[1])

MinuteMatch(w) ==
  \/ Len(w) = 2 /\ w[1] \in {"0", "1", "2", "3", "4", "5"} /\ IsDigit(w[2])
  \/ Len(w) = 1 /\ IsDigit(w[1])

SecondMatch(w) ==
  \/ Len(w) = 2 /\ w[1] = "6" /\ w[2] \in {"0", "1"}
  \/ Len(w) = 2 /\ w[1] \in {"0", "1", "2", "3", "4", "5"} /\ IsDigit(w[2])
  \/ Len(w) = 1 /\ IsDigit(w[1])

\* the regular expression matches all of s with the field widths f
RegexMatch(s, f) ==
  /\ Len(s) = 10 + f[1] + f[2] + f[3] + f[4] + f[5]
  /\ AllDigits(SubSeq(s, 1, 4))
  /\ s[5] = "-"
  /\ MonthMatch(Field(s, f, 1))
  /\ s[FieldStart(f, 2) - 1] = "-"
  /\ DayMatch(Field(s, f, 2))
  /\ LowerChar(s[FieldStart(f, 3) - 1]) = "t"
  /\ HourMatch(Field(s, f, 3))
  /\ s[FieldStart(f, 4) - 1] = ":"
  /\ MinuteMatch(Field(s, f, 4))
  /\ s[FieldStart(f, 5) - 1] = ":"
  /\ SecondMatch(Field(s, f, 5))
  /\ LowerChar(s[Len(s)]) = "z"

\* the value of a field's text; the day may carry a leading space
FieldValue(w) == DigitsValue(SelectSeq(w, IsDigit))

IsLeap(y) == (y % 4 = 0 /\ y % 100 # 0) \/ y % 400 = 0

DaysInMonth(y, m) ==
  IF m = 2 THEN (IF IsLeap(y) THEN 29 ELSE 28)
  ELSE IF m \in {4, 6, 9, 11} THEN 30 ELSE 31

\* the fields the regular expression captured
Captured(s, f) ==
  [t |-> "datetime",
   year |-> DigitsValue(SubSeq(s, 1, 4)),
   month |-> FieldValue(Field(s, f, 1)),
   day |-> FieldValue(Field(s, f, 2)),
   hour |-> FieldValue(Field(s, f, 3)),
   minute |-> FieldValue(Field(s, f, 4)),
   second |-> FieldValue(Field(s, f, 5))]

\* datetime(year, month, day, hour, minute, second)
datetime(dt) ==
  IF dt.year < 1 \/ dt.day > DaysInMonth(dt.year, dt.month) \/ dt.second > 59
  THEN Raise("ValueError")
  ELSE dt

\* the datetime strptime builds, or Raise("ValueError")
strptime(s) ==
  IF \E f \in FieldLens : RegexMatch(s, f)
  THEN datetime(Captured(s, CHOOSE f \in FieldLens : RegexMatch(s, f)))
  ELSE Raise("ValueError")

\* days since the civil date 0000-03-01 of day doy of the year yy that starts in March
DaysOfEra(yy, doy) ==
  (yy \div 400) * 146097
    + (yy % 400) * 365 + (yy % 400) \div 4 - (yy % 400) \div 100 + doy

\* days from 1970-01-01 to the civil date y-m-d (proleptic Gregorian)
DaysFromCivil(y, m, d) ==
  DaysOfEra(IF m <= 2 THEN y - 1 ELSE y,
            (153 * (IF m > 2 THEN m - 3 ELSE m + 9) + 2) \div 5 + d - 1) - 719468

\* time.mktime(dt.timetuple()): the epoch seconds of dt read as local time
mktime(dt) ==
  DaysFromCivil(dt.year, dt.month, dt.day) * 86400
    + dt.hour * 3600 + dt.minute * 60 + dt.second - LocalUtcOffset

\* strptime raises TypeError, which is not caught, when handed a non-string
is_rfc3339(value) ==
  IF ~IsStr(value) THEN Raise("TypeError")
  ELSE PyBool(~IsRaise(strptime(value.s)))

rfc3339_to_epoch(value) == PyInt(mktime(strptime(value.s)))

(***************************************************************************)
(* int(str) and float(str)                                                 *)
(***************************************************************************)
\* a run of digits in which single underscores may separate digits
DigitRun(s) ==
  /\ s # <<>>
  /\ \A n \in 1..Len(s) : IsDigit(s[n]) \/ s[n] = "_"
  /\ IsDigit(s[1]) /\ IsDigit(s[Len(s)])
  /\ \A n \in 1..(Len(s) - 1) : ~(s[n] = "_" /\ s[n+1] = "_")

RunValue(s) == DigitsValue(SelectSeq(s, IsDigit))

HasSign(s) == s # <<>> /\ s[1] \in {"+", "-"}

Unsigned(s) == IF HasSign(s) THEN Tail(s) ELSE s

IsNegative(s) == s # <<>> /\ s[1] = "-"

SignedRunValue(s) == IF IsNegative(s) THEN 0 - RunValue(Tail(s)) ELSE RunValue(Unsigned(s))

\* an optional sign and a run of digits
int_signed(u) ==
  IF ~DigitRun(Unsigned(u)) THEN Raise("ValueError") ELSE PyInt(SignedRunValue(u))

\* int(s): surrounding whitespace is ignored
int(s) == int_signed(strip(s))

\* the decimal d * 10^e without trailing zeros in d
RECURSIVE Normalize(_, _, _)
Normalize(neg, d, e) ==
  IF d = 0 THEN PyFloat(neg, 0, 0)
  ELSE IF d % 10 = 0 THEN Normalize(neg, d \div 10, e + 1)
  ELSE PyFloat(neg, d, e)

\* the first position of s that holds one of chars, Len(s) + 1 if none does
FirstOf(s, chars) == Min({n \in 1..Len(s) : s[n] \in chars} \cup {Len(s) + 1})

Before(s, n) == SubSeq(s, 1, n - 1)

After(s, n) == SubSeq(s, n + 1, Len(s))

\* integer part, fraction part, exponent: digits on one side of the point at
\* least, and digits in the exponent when there is one
float_parts(neg, ipart, fpart, hasExp, expo) ==
  IF /\ ipart = <<>> \/ DigitRun(ipart)
     /\ fpart = <<>> \/ DigitRun(fpart)
     /\ ipart # <<>> \/ fpart # <<>>
     /\ hasExp => DigitRun(Unsigned(expo))
  THEN Normalize(neg,
                 RunValue(ipart \o fpart),
                 (IF hasExp THEN SignedRunValue(expo) ELSE 0)
                   - Len(SelectSeq(fpart, IsDigit)))
  ELSE Raise("ValueError")

float_mantissa(neg, mant, hasExp, expo) ==
  float_parts(neg, Before(mant, FirstOf(mant, {"."})),
              After(mant, FirstOf(mant, {"."})), hasExp, expo)

float_unsigned(neg, body) ==
  float_mantissa(neg, Before(body, FirstOf(body, {"e", "E"})),
                 FirstOf(body, {"e", "E"}) <= Len(body),
                 After(body, FirstOf(body, {"e", "E"})))

float_signed(u) == float_unsigned(IsNegative(u), Unsigned(u))

\* float(s) for the decimal forms: [sign] digits [. digits] [e [sign] digits].
\* The value is kept as an exact decimal; "inf" and "nan" hold no "." and so
\* never reach float() in process_number.
float(s) == float_signed(strip(s))

(***************************************************************************)
(* The scalar rules                                                        *)
(***************************************************************************)
\* if is_rfc3339(value): return rfc3339_to_epoch(value); return value
string_dated(value, matched) ==
  IF IsRaise(matched) THEN matched
  ELSE IF matched.b THEN rfc3339_to_epoch(value)
  ELSE value

\* if not value: return None
string_checked(value) ==
  IF ~Truthy(value) THEN None ELSE string_dated(value, is_rfc3339(value))

process_string(field_value) == string_checked(sanitize_value(field_value))

StartsWith(s, p) == Len(s) >= Len(p) /\ SubSeq(s, 1, Len(p)) = p

\* re.sub(r"^-?0+", "", s)
SubSignZeros(s) ==
  IF s # <<>> /\ s[1] = "-" /\ LeadingZeros(Tail(s)) > 0
  THEN Drop(Tail(s), LeadingZeros(Tail(s)))
  ELSE Drop(s, LeadingZeros(s))

\* the zeros go only while a digit still follows them
DropZerosBeforeDigit(s, z) ==
  IF z < Len(s) /\ IsDigit(s[z + 1]) THEN Drop(s, z)
  ELSE IF z > 1 THEN Drop(s, z - 1)
  ELSE s

\* re.sub(r"^0+(?=\d)", "", s)
SubZerosBeforeDigit(s) == DropZerosBeforeDigit(s, LeadingZeros(s))

\* the "Remove leading zeros" step
strip_zeros(s) ==
  IF StartsWith(s, <<"-", "0">>) THEN <<"-">> \o SubSignZeros(s)
  ELSE SubZerosBeforeDigit(s)

\* except ValueError: return None
number_or_none(parsed) == IF IsRaise(parsed) THEN None ELSE parsed

number_parsed(value) ==
  number_or_none(IF InSeq(".", value) THEN float(value) ELSE int(value))

\* value.startswith raises AttributeError on a non-string
number_checked(value) ==
  IF ~IsStr(value) THEN Raise("AttributeError")
  ELSE number_parsed(strip_zeros(value.s))

process_number(field_value) == number_checked(sanitize_value(field_value))

true_values == {<<"1">>, <<"t">>, <<"t", "r", "u", "e">>}

false_values == {<<"0">>, <<"f">>, <<"f", "a", "l", "s", "e">>}

boolean_lookup(value) ==
  IF value \in true_values THEN PyBool(TRUE)
  ELSE IF value \in false_values THEN PyBool(FALSE)
  ELSE None

\* .lower() raises AttributeError on a non-string
boolean_checked(value) ==
  IF ~IsStr(value) THEN Raise("AttributeError") ELSE boolean_lookup(lower(value.s))

process_boolean(field_value) == boolean_checked(sanitize_value(field_value))

omit == Str(<<"o", "m", "i", "t">>)

\* null_lookup with the table read the other way round
null_lookup_inverted(value) ==
  IF value \in true_values THEN omit
  ELSE IF value \in false_values THEN None
  ELSE omit

null_lookup(value) ==
  IF value \in true_values THEN None
  ELSE IF value \in false_values THEN omit
  ELSE omit

null_checked(value) ==
  IF ~IsStr(value) THEN Raise("AttributeError") ELSE null_lookup(lower(value.s))

process_null(field_value) == null_checked(sanitize_value(field_value))

(***************************************************************************)
(* Python's dict and the tag wrapper                                       *)
(***************************************************************************)
HasKey(entries, k) == \E n \in 1..Len(entries) : entries[n][1] = k

\* DictSet as d.setdefault(k, v) would behave: an existing key keeps its value
DictSetDefault(entries, k, v) ==
  IF HasKey(entries, k) THEN entries ELSE Append(entries, <<k, v>>)

\* d[k] = v: a new key goes last, an existing key keeps its place
DictSet(entries, k, v) ==
  IF HasKey(entries, k)
  THEN [n \in 1..Len(entries) |->
          IF entries[n][1] = k THEN <<k, v>> ELSE entries[n]]
  ELSE Append(entries, <<k, v>>)

\* sorted(d.items()): the keys are distinct, so the key alone orders the pairs
sorted(entries) ==
  [n \in 1..Len(entries) |->
     CHOOSE e \in {entries[m] : m \in 1..Len(entries)} :
       Cardinality({m \in 1..Len(entries) : StrLess(entries[m][1], e[1])}) = n - 1]

\* isinstance(item, dict) and len(item) == 1
SingleEntry(item) == IsDict(item) /\ Len(item.entries) = 1

\* type_key, val = next(iter(item.items()))
TypeKey(item) == item.entries[1][1]

Val(item) == item.entries[1][2]

TagS == <<"S">>

TagN == <<"N">>

TagBOOL == <<"B", "O", "O", "L">>

TagNULL == <<"N", "U", "L", "L">>

TagL == <<"L">>

TagM == <<"M">>

(***************************************************************************)
(* process_list                                                            *)
(***************************************************************************)
\* the rule of an element's tag; NULL, L, M and unknown tags decode nothing
list_rule(tag, payload) ==
  CASE tag = TagS -> process_string(payload)
    [] tag = TagN -> process_number(payload)
    [] tag = TagBOOL -> process_boolean(payload)
    [] OTHER -> None

\* if processed is not None: processed_list.append(processed)
list_append(processed_list, outcome) ==
  IF IsRaise(outcome) THEN outcome
  ELSE IF outcome # None THEN List(Append(processed_list.items, outcome))
  ELSE processed_list

\* list_step without the len(item) != 1 test
list_step_any_size(processed_list, element) ==
  IF ~IsDict(element) \/ element.entries = <<>> THEN processed_list
  ELSE list_append(processed_list, list_rule(TypeKey(element), Val(element)))

\* one pass of the loop body: the list after it, or the exception it raises
list_step(processed_list, element) ==
  IF ~SingleEntry(element) THEN processed_list
  ELSE list_append(processed_list, list_rule(TypeKey(element), Val(element)))

\* an exception ends the loop
list_next(before, element) ==
  IF IsRaise(before) THEN before ELSE list_step(before, element)

RECURSIVE list_loop(_, _)
list_loop(items, n) ==
  IF n = 0 THEN List(<<>>) ELSE list_next(list_loop(items, n - 1), items[n])

\* if not processed_list: return None
list_result(processed_list) ==
  IF IsRaise(processed_list) THEN processed_list
  ELSE IF processed_list.items = <<>> THEN None
  ELSE processed_list

process_list(field_value) ==
  IF ~IsList(field_value) THEN None
  ELSE list_result(list_loop(field_value.items, Len(field_value.items)))

(***************************************************************************)
(* process_map                                                             *)
(***************************************************************************)
RECURSIVE process_map(_)

\* the rule of a field's tag, NULL apart; an unknown tag decodes nothing
map_rule(tag, payload) ==
  CASE tag = TagS -> process_string(payload)
    [] tag = TagN -> process_number(payload)
    [] tag = TagBOOL -> process_boolean(payload)
    [] tag = TagL -> process_list(payload)
    [] tag = TagM -> process_map(payload)
    [] OTHER -> None

\* if processed is not None: processed_map[key] = processed
map_store(processed_map, k, outcome) ==
  IF IsRaise(outcome) THEN outcome
  ELSE IF outcome # None THEN Dict(DictSet(processed_map.entries, k, outcome))
  ELSE processed_map

\* the three branches after process_null
map_store_null(processed_map, k, outcome) ==
  IF IsRaise(outcome) THEN outcome
  ELSE IF outcome = None THEN Dict(DictSet(processed_map.entries, k, None))
  ELSE IF outcome = omit THEN processed_map
  ELSE Dict(DictSet(processed_map.entries, k, outcome))

map_keyed(processed_map, k, field) ==
  IF k = <<>> THEN processed_map
  ELSE IF ~SingleEntry(field) THEN processed_map
  ELSE IF TypeKey(field) = TagNULL
  THEN map_store_null(processed_map, k, process_null(Val(field)))
  ELSE map_store(processed_map, k, map_rule(TypeKey(field), Val(field)))

\* one pass of the loop body: the dict after it, or the exception it raises
map_step(processed_map, rk, field) ==
  map_keyed(processed_map, sanitize_key(rk), field)

\* an exception ends the loop
map_next(before, entry) ==
  IF IsRaise(before) THEN before ELSE map_step(before, entry[1], entry[2])

RECURSIVE map_loop(_, _)
map_loop(entries, n) ==
  IF n = 0 THEN Dict(<<>>) ELSE map_next(map_loop(entries, n - 1), entries[n])

\* map_result without the test for an empty map
map_result_keeps_empty(processed_map) ==
  IF IsRaise(processed_map) THEN processed_map
  ELSE Dict(sorted(processed_map.entries))

\* if not processed_map: return None; return dict(sorted(processed_map.items()))
map_result(processed_map) ==
  IF IsRaise(processed_map) THEN processed_map
  ELSE IF processed_map.entries = <<>> THEN None
  ELSE Dict(sorted(processed_map.entries))

process_map(field_value) ==
  IF ~IsDict(field_value) THEN None
  ELSE map_result(map_loop(field_value.entries, Len(field_value.entries)))

(***************************************************************************)
(* transform_input, one loop iteration per step                            *)
(*                                                                         *)
(* input_json is the parsed top-level mapping, i the number of its entries *)
(* the loop has consumed, processed the dict under construction; raw_key,  *)
(* item, key, type_key, val and processed_value are the function's locals, *)
(* which keep their last binding across iterations.  pc is "loop" while    *)
(* the loop runs, "done" after the return (result holds the returned list) *)
(* and "raised" when an exception left the function (result holds it).     *)
(***************************************************************************)
VARIABLES input_json, pc, i, processed, raw_key, item, key, type_key, val,
          processed_value, result

vars == <<input_json, pc, i, processed, raw_key, item, key, type_key, val,
          processed_value, result>>

InitWith(docs) ==
  /\ input_json \in docs
  /\ pc = "loop"
  /\ i = 0
  /\ processed = Dict(<<>>)
  /\ raw_key = Unbound
  /\ item = Unbound
  /\ key = Unbound
  /\ type_key = Unbound
  /\ val = Unbound
  /\ processed_value = Unbound
  /\ result = Unbound

\* the loop takes the next entry: raw_key, item and key are bound
NextEntry ==
  /\ pc = "loop"
  /\ i < Len(input_json.entries)
  /\ i' = i + 1
  /\ raw_key' = Str(input_json.entries[i + 1][1])
  /\ item' = input_json.entries[i + 1][2]
  /\ key' = Str(sanitize_key(input_json.entries[i + 1][1]))
  /\ UNCHANGED input_json

\* the entry passed both guards: type_key and val are bound
Dispatch(tag) ==
  /\ NextEntry
  /\ key'.s # <<>>
  /\ SingleEntry(item')
  /\ TypeKey(item') = tag
  /\ type_key' = Str(TypeKey(item'))
  /\ val' = Val(item')

\* StoreIfNotNone as `if processed_value:` would behave
StoreIfTruthy(outcome) ==
  IF IsRaise(outcome)
  THEN /\ pc' = "raised"
       /\ result' = outcome
       /\ UNCHANGED <<processed, processed_value>>
  ELSE /\ processed_value' = outcome
       /\ processed' = IF Truthy(outcome)
                       THEN Dict(DictSet(processed.entries, key'.s, outcome))
                       ELSE processed
       /\ UNCHANGED <<pc, result>>

\* processed_value = rule(val); if processed_value is not None: processed[key] = it
StoreIfNotNone(outcome) ==
  IF IsRaise(outcome)
  THEN /\ pc' = "raised"
       /\ result' = outcome
       /\ UNCHANGED <<processed, processed_value>>
  ELSE /\ processed_value' = outcome
       /\ processed' = IF outcome # None
                       THEN Dict(DictSet(processed.entries, key'.s, outcome))
                       ELSE processed
       /\ UNCHANGED <<pc, result>>

\* if not key: continue
SkipEmptyKey ==
  /\ NextEntry
  /\ key'.s = <<>>
  /\ UNCHANGED <<pc, processed, type_key, val, processed_value, result>>

\* if not isinstance(item, dict) or len(item) != 1: continue
SkipMalformed ==
  /\ NextEntry
  /\ key'.s # <<>>
  /\ ~SingleEntry(item')
  /\ UNCHANGED <<pc, processed, type_key, val, processed_value, result>>

StepS == Dispatch(TagS) /\ StoreIfNotNone(process_string(val'))

StepN == Dispatch(TagN) /\ StoreIfNotNone(process_number(val'))

StepBOOL == Dispatch(TagBOOL) /\ StoreIfNotNone(process_boolean(val'))

\* the NULL branch stores an explicit None and nothing else
StoreNull(outcome) ==
  IF IsRaise(outcome)
  THEN /\ pc' = "raised"
       /\ result' = outcome
       /\ UNCHANGED <<processed, processed_value>>
  ELSE /\ processed_value' = outcome
       /\ processed' = IF outcome = None
                       THEN Dict(DictSet(processed.entries, key'.s, None))
                       ELSE processed
       /\ UNCHANGED <<pc, result>>

\* StepNULL with the store of the other branches
StepNULLLikeOthers == Dispatch(TagNULL) /\ StoreIfNotNone(process_null(val'))

StepNULL == Dispatch(TagNULL) /\ StoreNull(process_null(val'))

StepL == Dispatch(TagL) /\ StoreIfNotNone(process_list(val'))

StepM == Dispatch(TagM) /\ StoreIfNotNone(process_map(val'))

\* else: continue
SkipOtherTag ==
  /\ NextEntry
  /\ key'.s # <<>>
  /\ SingleEntry(item')
  /\ TypeKey(item') \notin {TagS, TagN, TagBOOL, TagNULL, TagL, TagM}
  /\ type_key' = Str(TypeKey(item'))
  /\ val' = Val(item')
  /\ UNCHANGED <<pc, processed, processed_value, result>>

\* if not processed: return []; return [processed]
Return ==
  /\ pc = "loop"
  /\ i = Len(input_json.entries)
  /\ pc' = "done"
  /\ result' = IF processed.entries = <<>> THEN List(<<>>) ELSE List(<<processed>>)
  /\ UNCHANGED <<input_json, i, processed, raw_key, item, key, type_key, val,
                 processed_value>>

Next ==
  \/ SkipEmptyKey
  \/ SkipMalformed
  \/ StepS
  \/ StepN
  \/ StepBOOL
  \/ StepNULL
  \/ StepL
  \/ StepM
  \/ SkipOtherTag
  \/ Return

(***************************************************************************)
(* Input documents                                                         *)
(***************************************************************************)
MaxEntries == 2

MaxListLen == 2

MaxMapEntries == 2

\* {tag: payload}
Tagged(tag, payload) == Dict(<< <<tag, payload>> >>)

\* the mappings of at most n entries with keys among keys and values among items
Docs(keys, items, n) ==
  UNION {{d \in [1..m -> keys \X items] :
            \A a, b \in 1..m : a # b => d[a][1] # d[b][1]} : m \in 0..n}

\* "b" sorts after "a"; " a" and "a" trim to the same key; " " trims to nothing
RawKeys == {<<"b">>, <<"a">>, <<" ", "a">>, <<" ">>}

\* top-level fields: every branch of the dispatch, with and without omission
TopItems ==
  { Tagged(TagS, Str(<<" ", "h", "i", " ">>)),
    Tagged(TagS, Str(<<" ">>)),
    Tagged(TagS, PyInt(5)),
    Tagged(TagN, Str(<<"0", "0", "7">>)),
    Tagged(TagN, Str(<<"-", "0">>)),
    Tagged(TagBOOL, Str(<<"F">>)),
    Tagged(TagBOOL, Str(<<"y", "e", "s">>)),
    Tagged(TagNULL, Str(<<" ", "T", "r", "u", "e">>)),
    Tagged(TagNULL, Str(<<"0">>)),
    Tagged(TagL, List(<< Tagged(TagS, Str(<<"x">>)),
                         Tagged(TagNULL, Str(<<"1">>)),
                         Tagged(TagBOOL, Str(<<"0">>)) >>)),
    Tagged(TagM, Dict(<< <<<<"z">>, Tagged(TagS, Str(<<"1">>))>>,
                         <<<<"b">>, Tagged(TagNULL, Str(<<"t">>))>>,
                         <<<<" ", "z">>, Tagged(TagN, Str(<<"x">>))>> >>)),
    Str(<<"x">>),
    Tagged(<<"X">>, Str(<<"x">>)) }

\* further scalar fields for the single-field documents
ScalarItems ==
  { Tagged(TagS, Str(<<"o", "m", "i", "t">>)),
    Tagged(TagS, Str(<<"2","0","2","1","-","0","1","-","0","1","T",
                       "0","0",":","0","0",":","0","0","Z">>)),
    Tagged(TagN, Str(<<"-", "0", "0", "7">>)),
    Tagged(TagN, Str(<<"-", "0", ".", "5", "0">>)),
    Tagged(TagN, Str(<<"a", "b", "c">>)),
    Tagged(TagN, PyInt(5)),
    Tagged(TagBOOL, Str(<<" ", "t", "R", "U", "E", " ">>)),
    Tagged(TagBOOL, Str(<<"1">>)),
    Tagged(TagBOOL, Str(<<"f", "a", "l", "s", "e">>)),
    Tagged(TagBOOL, PyBool(TRUE)),
    Tagged(TagNULL, Str(<<"F", "a", "l", "s", "e">>)),
    Tagged(TagNULL, Str(<<"n", "o">>)),
    Tagged(TagNULL, Str(<<"o", "m", "i", "t">>)),
    Tagged(TagNULL, None),
    Tagged(TagL, Str(<<"x">>)),
    Tagged(TagM, List(<<>>)),
    Dict(<<>>),
    Dict(<< <<TagS, Str(<<"x">>)>>, <<TagN, Str(<<"1">>)>> >>) }

\* list elements: the three decoded tags, the three skipped tags, bad wrappers
ListElems ==
  { Tagged(TagS, Str(<<"x">>)),
    Tagged(TagS, Str(<<" ">>)),
    Tagged(TagN, Str(<<"7">>)),
    Tagged(TagN, Str(<<"a">>)),
    Tagged(TagBOOL, Str(<<"f", "a", "l", "s", "e">>)),
    Tagged(TagBOOL, Str(<<"T">>)),
    Tagged(TagBOOL, Str(<<"n", "o">>)),
    Tagged(TagNULL, Str(<<"t", "r", "u", "e">>)),
    Tagged(TagL, List(<< Tagged(TagS, Str(<<"x">>)) >>)),
    Tagged(TagM, Dict(<< <<<<"k">>, Tagged(TagS, Str(<<"x">>))>> >>)),
    Str(<<"x">>),
    Dict(<<>>),
    Dict(<< <<TagS, Str(<<"x">>)>>, <<TagN, Str(<<"1">>)>> >>),
    Tagged(<<"X">>, Str(<<"x">>)),
    Tagged(TagN, PyInt(5)) }

ListItems ==
  {Tagged(TagL, List(l)) :
     l \in UNION {[1..m -> ListElems] : m \in 0..MaxListLen}}

\* map fields: all six tags, fields that vanish, containers that empty out
MapValues ==
  { Tagged(TagS, Str(<<"x">>)),
    Tagged(TagS, Str(<<" ">>)),
    Tagged(TagN, Str(<<"7">>)),
    Tagged(TagBOOL, Str(<<"f", "a", "l", "s", "e">>)),
    Tagged(TagBOOL, Str(<<"?">>)),
    Tagged(TagNULL, Str(<<"t", "r", "u", "e">>)),
    Tagged(TagNULL, Str(<<"f", "a", "l", "s", "e">>)),
    Tagged(TagL, List(<< Tagged(TagBOOL, Str(<<"0">>)) >>)),
    Tagged(TagL, List(<< Tagged(TagNULL, Str(<<"1">>)) >>)),
    Tagged(TagM, Dict(<< <<<<"k">>, Tagged(TagNULL, Str(<<"T">>))>> >>)),
    Tagged(TagM, Dict(<< <<<<"k">>, Tagged(TagS, Str(<<" ">>))>> >>)),
    Dict(<<>>),
    Tagged(TagBOOL, PyInt(1)) }

MapItems ==
  {Tagged(TagM, Dict(d)) : d \in Docs(RawKeys, MapValues, MaxMapEntries)}

\* documents of several fields, which may collide and arrive out of order
TopDocs == {Dict(d) : d \in Docs(RawKeys, TopItems, MaxEntries)}

\* documents of one field whose value ranges over scalars, lists and maps
NestedDocs ==
  {Dict(<< <<rk, it>> >>) :
     rk \in {<<"a">>, <<" ">>},
     it \in TopItems \cup ScalarItems \cup ListItems \cup MapItems}

Init == InitWith(TopDocs)

Spec == Init /\ [][Next]_vars

InitNested == InitWith(NestedDocs)

SpecNested == InitNested /\ [][Next]_vars

(***************************************************************************)
(* Vocabulary of the properties                                            *)
(***************************************************************************)
Absent == [t |-> "absent"]

\* d.get(k), Absent when d has no key k
Lookup(entries, k) ==
  IF HasKey(entries, k)
  THEN entries[CHOOSE n \in 1..Len(entries) : entries[n][1] = k][2]
  ELSE Absent

\* the fields of the mapping the output sequence holds, none when it is empty
TopOut == IF result.items = <<>> THEN <<>> ELSE result.items[1].entries

\* the fields of a decoded mapping, none for anything else
FieldsOf(v) == IF v.t = "dict" THEN v.entries ELSE <<>>

TrimmedKey(src, m) == strip(src[m][1])

\* no other entry of src trims to the key of entry m
UniqueKey(src, m) ==
  \A j \in 1..Len(src) : j # m => TrimmedKey(src, j) # TrimmedKey(src, m)

TrueLiterals == {<<"1">>, <<"t">>, <<"t", "r", "u", "e">>}

FalseLiterals == {<<"0">>, <<"f">>, <<"f", "a", "l", "s", "e">>}

\* the trimmed, lower-cased text of a string payload
Literal(payload) == lower(strip(payload.s))

(***************************************************************************)
(* C1: transform_input returns a result for every top-level mapping and    *)
(* never raises, whatever anomaly a field holds.                           *)
(***************************************************************************)
C1_NeverRaises == pc # "raised"

(***************************************************************************)
(* C2: every mapping in the output, the top-level one included, has its    *)
(* keys in ascending lexical order.                                        *)
(***************************************************************************)
RECURSIVE KeysAscending(_)
KeysAscending(v) ==
  CASE v.t = "dict" ->
         /\ \A n \in 1..(Len(v.entries) - 1) :
              StrLess(v.entries[n][1], v.entries[n + 1][1])
         /\ \A n \in 1..Len(v.entries) : KeysAscending(v.entries[n][2])
    [] v.t = "list" -> \A n \in 1..Len(v.items) : KeysAscending(v.items[n])
    [] OTHER -> TRUE

C2_AllMappingsSorted == pc = "done" => KeysAscending(result)

(***************************************************************************)
(* C3: an N payload that trims to an optional "-" and one or more decimal  *)
(* digits decodes to the integer of that value (leading zeros ignored,     *)
(* "-0" giving zero) and is never omitted.                                 *)
(***************************************************************************)
SignedDigits(s) ==
  /\ s # <<>>
  /\ IF s[1] = "-" THEN Len(s) > 1 /\ AllDigits(Tail(s)) ELSE AllDigits(s)

SignedDigitsValue(s) ==
  IF s[1] = "-" THEN 0 - DigitsValue(Tail(s)) ELSE DigitsValue(s)

C3_SignedDigitsDecodeToInteger ==
  (/\ pc # "raised"
   /\ type_key = Str(TagN)
   /\ IsStr(val)
   /\ SignedDigits(strip(val.s)))
  => processed_value = PyInt(SignedDigitsValue(strip(val.s)))

(***************************************************************************)
(* C9: the top-level decode treats its entries as the Map rule does: the   *)
(* output is empty exactly when the Map rule omits the document, otherwise *)
(* its mapping holds the keys and values of the Map rule's result; and it  *)
(* raises exactly what the Map rule raises.                                *)
(***************************************************************************)
SameFields(a, b) ==
  /\ \A n \in 1..Len(a) : Lookup(b, a[n][1]) = a[n][2]
  /\ \A n \in 1..Len(b) : Lookup(a, b[n][1]) = b[n][2]

AgreesWithMapRule(ruled) ==
  /\ pc = "done" =>
       /\ ~IsRaise(ruled)
       /\ result.items = <<>> <=> ruled = None
       /\ SameFields(TopOut, FieldsOf(ruled))
  /\ pc = "raised" => ruled = result

C9_TopLevelAgreesWithMapRule ==
  pc \in {"done", "raised"} => AgreesWithMapRule(process_map(input_json))

\* two fields decoded at the top level, in an order the Map rule would change
C9_Witness ==
  /\ pc = "done"
  /\ Len(TopOut) = 2
  /\ process_map(input_json) # result.items[1]
  /\ \E n \in 1..2 : TopOut[n][2] = None

(***************************************************************************)
(* C10: when several raw keys of one mapping trim to the same non-empty    *)
(* key, the output holds the key once, with the value of the last such     *)
(* entry whose decode is not omitted; the key is absent only if every such *)
(* entry is omitted.  Checked on the top-level mapping, on the document    *)
(* read as an M payload and on the M payloads of the fields.               *)
(***************************************************************************)
\* the rule of the field's tag, NULL apart
FieldRule(field) ==
  CASE TypeKey(field) = TagS -> process_string(Val(field))
    [] TypeKey(field) = TagN -> process_number(Val(field))
    [] TypeKey(field) = TagBOOL -> process_boolean(Val(field))
    [] TypeKey(field) = TagL -> process_list(Val(field))
    [] TypeKey(field) = TagM -> process_map(Val(field))

\* what one entry decodes to on its own: a value, None for an explicit null,
\* Absent for an omission
Outcome(field) ==
  IF ~SingleEntry(field) THEN Absent
  ELSE IF TypeKey(field) = TagNULL
  THEN (IF process_null(Val(field)) = None THEN None ELSE Absent)
  ELSE IF TypeKey(field) \in {TagS, TagN, TagBOOL, TagL, TagM}
  THEN (LET decoded == FieldRule(field)
        IN  IF decoded = None THEN Absent ELSE decoded)
  ELSE Absent

\* the entries of src that trim to k and are not omitted
Live(src, k) ==
  {j \in 1..Len(src) : TrimmedKey(src, j) = k /\ Outcome(src[j][2]) # Absent}

LastLiveWins(src, out) ==
  /\ \A a, b \in 1..Len(out) : a # b => out[a][1] # out[b][1]
  /\ \A n \in 1..Len(out) : Live(src, out[n][1]) # {}
  /\ \A m \in 1..Len(src) :
       LET k == TrimmedKey(src, m)
           live == Live(src, k)
       IN  k # <<>> =>
             IF live = {}
             THEN ~HasKey(out, k)
             ELSE Lookup(out, k) = Outcome(src[Max(live)][2])

C10_LastLiveEntryWins ==
  /\ pc = "done" =>
       /\ LastLiveWins(input_json.entries, TopOut)
       /\ LastLiveWins(input_json.entries, FieldsOf(process_map(input_json)))
  /\ (pc # "raised" /\ type_key = Str(TagM) /\ IsDict(val)) =>
       LastLiveWins(val.entries, FieldsOf(processed_value))

\* two colliding entries that decode to different values: the later one is kept
C10_Witness ==
  /\ pc = "done"
  /\ Len(input_json.entries) = 2
  /\ TrimmedKey(input_json.entries, 1) = TrimmedKey(input_json.entries, 2)
  /\ Outcome(input_json.entries[1][2]) \notin {Absent, Outcome(input_json.entries[2][2])}
  /\ Outcome(input_json.entries[2][2]) # Absent
  /\ TopOut = << <<TrimmedKey(input_json.entries, 1), Outcome(input_json.entries[2][2])>> >>

(***************************************************************************)
(* C4: below the top-level output sequence no mapping and no sequence is   *)
(* empty and no key maps to an omission: every value under a key is what   *)
(* an entry of that key decodes to (a None only from NULL-true, never the  *)
(* NULL rule's "omit"), and a field decoded from NULL-true stays present   *)
(* with a null value, also when it is the only field of its map.           *)
(***************************************************************************)
RECURSIVE NonEmptyDeep(_)
NonEmptyDeep(v) ==
  CASE v.t = "dict" ->
         /\ v.entries # <<>>
         /\ \A n \in 1..Len(v.entries) : NonEmptyDeep(v.entries[n][2])
    [] v.t = "list" ->
         /\ v.items # <<>>
         /\ \A n \in 1..Len(v.items) : NonEmptyDeep(v.items[n])
    [] OTHER -> TRUE

\* v is a value the S, N or BOOL rule can give for the payload
ScalarExplained(tag, payload, v) ==
  /\ IsStr(payload)
  /\ CASE tag = TagS -> \/ v.t = "str" /\ v.s # <<>> /\ v.s = strip(payload.s)
                        \/ v.t = "int"
       [] tag = TagN -> v.t \in {"int", "float"}
       [] tag = TagBOOL -> v.t = "bool"
       [] OTHER -> FALSE

RECURSIVE Provenance(_, _)

\* v is a value the field can decode to
Explained(field, v) ==
  /\ SingleEntry(field)
  /\ CASE TypeKey(field) = TagNULL ->
            /\ v = None
            /\ IsStr(Val(field))
            /\ Literal(Val(field)) \in TrueLiterals
       [] TypeKey(field) = TagL ->
            /\ v.t = "list"
            /\ IsList(Val(field))
            /\ \A n \in 1..Len(v.items) :
                 \E m \in 1..Len(Val(field).items) :
                   /\ SingleEntry(Val(field).items[m])
                   /\ ScalarExplained(TypeKey(Val(field).items[m]),
                                      Val(Val(field).items[m]), v.items[n])
       [] TypeKey(field) = TagM ->
            /\ v.t = "dict"
            /\ IsDict(Val(field))
            /\ Provenance(Val(field).entries, v.entries)
       [] OTHER -> ScalarExplained(TypeKey(field), Val(field), v)

\* every field of out is explained by an entry of src with its key
Provenance(src, out) ==
  \A n \in 1..Len(out) :
    \E m \in 1..Len(src) :
      /\ TrimmedKey(src, m) = out[n][1]
      /\ Explained(src[m][2], out[n][2])

IsNullTrue(field) ==
  /\ SingleEntry(field)
  /\ TypeKey(field) = TagNULL
  /\ IsStr(Val(field))
  /\ Literal(Val(field)) \in TrueLiterals

\* a NULL-true entry that is the last one of its key keeps the key, as None
RECURSIVE NullKept(_, _)
NullKept(src, out) ==
  \A m \in 1..Len(src) :
    (/\ TrimmedKey(src, m) # <<>>
     /\ SingleEntry(src[m][2])
     /\ \A j \in (m + 1)..Len(src) : TrimmedKey(src, j) # TrimmedKey(src, m))
    => /\ IsNullTrue(src[m][2]) => Lookup(out, TrimmedKey(src, m)) = None
       /\ (TypeKey(src[m][2]) = TagM /\ IsDict(Val(src[m][2]))) =>
            NullKept(Val(src[m][2]).entries,
                     FieldsOf(Lookup(out, TrimmedKey(src, m))))

C4_NothingEmptyNothingAbsent ==
  pc = "done" =>
    /\ \A n \in 1..Len(TopOut) : NonEmptyDeep(TopOut[n][2])
    /\ Provenance(input_json.entries, TopOut)
    /\ NullKept(input_json.entries, TopOut)

\* a map of two fields, one omitted, one NULL-true: it is kept for its null
C4_Witness ==
  /\ pc = "done"
  /\ type_key = Str(TagM)
  /\ IsDict(val)
  /\ Len(val.entries) = 2
  /\ \E k \in RawKeys : result = List(<< Dict(<< <<<<"a">>, Dict(<< <<strip(k), None>> >>)>> >>) >>)

(***************************************************************************)
(* C5: for an L payload that is a sequence the List rule returns exactly   *)
(* the decoded values of the elements that are single-entry mappings       *)
(* tagged S, N or BOOL and whose rule does not omit, in source order; it   *)
(* omits when nothing survives or when the payload is not a sequence.      *)
(***************************************************************************)
\* the element's own rule
ElementRule(element) ==
  CASE TypeKey(element) = TagS -> process_string(Val(element))
    [] TypeKey(element) = TagN -> process_number(Val(element))
    [] TypeKey(element) = TagBOOL -> process_boolean(Val(element))

\* the elements the claim keeps
Kept(items) ==
  {n \in 1..Len(items) :
     /\ SingleEntry(items[n])
     /\ TypeKey(items[n]) \in {TagS, TagN, TagBOOL}
     /\ ElementRule(items[n]) # None}

ListAsClaimed(items, out) ==
  IF Kept(items) = {} THEN out = None
  ELSE /\ out.t = "list"
       /\ Len(out.items) = Cardinality(Kept(items))
       /\ \A n \in Kept(items) :
            out.items[Cardinality({m \in Kept(items) : m <= n})] = ElementRule(items[n])

C5_ListKeepsDecodedScalarsInOrder ==
  (pc # "raised" /\ type_key = Str(TagL)) =>
    IF IsList(val) THEN ListAsClaimed(val.items, processed_value)
    ELSE processed_value = None

\* a list of two elements of which the second alone survives
C5_Witness ==
  /\ pc = "done"
  /\ type_key = Str(TagL)
  /\ IsList(val)
  /\ Len(val.items) = 2
  /\ Kept(val.items) = {2}
  /\ result = List(<< Dict(<< <<<<"a">>, List(<<PyBool(FALSE)>>)>> >>) >>)

(***************************************************************************)
(* C6: a field tagged NULL, at the top level or inside a map, is present   *)
(* with a null value exactly when its trimmed, lower-cased payload is "1", *)
(* "t" or "true"; for any other payload the key is absent, so the NULL     *)
(* rule's omit signal is never a field value.  A field is an entry whose   *)
(* trimmed key no other entry of the mapping shares.                       *)
(***************************************************************************)
RECURSIVE NullFields(_, _)
NullFields(src, out) ==
  \A m \in 1..Len(src) :
    (/\ TrimmedKey(src, m) # <<>>
     /\ SingleEntry(src[m][2])
     /\ UniqueKey(src, m))
    => /\ (TypeKey(src[m][2]) = TagNULL /\ IsStr(Val(src[m][2]))) =>
            IF Literal(Val(src[m][2])) \in TrueLiterals
            THEN Lookup(out, TrimmedKey(src, m)) = None
            ELSE Lookup(out, TrimmedKey(src, m)) = Absent
       /\ (TypeKey(src[m][2]) = TagM /\ IsDict(Val(src[m][2]))) =>
            NullFields(Val(src[m][2]).entries,
                       FieldsOf(Lookup(out, TrimmedKey(src, m))))

C6_NullFieldPresentIffTrue ==
  pc = "done" => NullFields(input_json.entries, TopOut)

\* a map with a NULL-true field and a NULL-false field: one key, null-valued
C6_Witness ==
  /\ pc = "done"
  /\ type_key = Str(TagM)
  /\ IsDict(val)
  /\ Len(val.entries) = 2
  /\ \A n \in 1..2 : SingleEntry(val.entries[n][2]) /\ TypeKey(val.entries[n][2]) = TagNULL
  /\ result = List(<< Dict(<< <<<<"a">>, Dict(<< <<<<"b">>, None>> >>)>> >>) >>)

(***************************************************************************)
(* C7: a field or list element tagged BOOL decodes to true exactly for     *)
(* "1", "t", "true" (trimmed, lower-cased), to false exactly for "0", "f", *)
(* "false", and is omitted otherwise; a decoded false is kept as a         *)
(* top-level field, a map field and a list element.                        *)
(***************************************************************************)
IsBoolValue(v) == v.t = "bool"

\* a list element tagged BOOL whose payload is one of the six literals
IsBoolElement(element) ==
  /\ SingleEntry(element)
  /\ TypeKey(element) = TagBOOL
  /\ IsStr(Val(element))
  /\ Literal(Val(element)) \in TrueLiterals \cup FalseLiterals

BoolOf(element) == PyBool(Literal(Val(element)) \in TrueLiterals)

\* the booleans a decoded list holds, in order
BoolsIn(v) == IF v.t = "list" THEN SelectSeq(v.items, IsBoolValue) ELSE <<>>

\* the booleans the BOOL elements of a list payload stand for, in order
BoolsOf(items) ==
  [n \in 1..Len(SelectSeq(items, IsBoolElement)) |->
     BoolOf(SelectSeq(items, IsBoolElement)[n])]

RECURSIVE BoolFields(_, _)
BoolFields(src, out) ==
  \A m \in 1..Len(src) :
    (/\ TrimmedKey(src, m) # <<>>
     /\ SingleEntry(src[m][2])
     /\ UniqueKey(src, m))
    => /\ (TypeKey(src[m][2]) = TagBOOL /\ IsStr(Val(src[m][2]))) =>
            Lookup(out, TrimmedKey(src, m))
              = (IF Literal(Val(src[m][2])) \in TrueLiterals THEN PyBool(TRUE)
                 ELSE IF Literal(Val(src[m][2])) \in FalseLiterals THEN PyBool(FALSE)
                 ELSE Absent)
       /\ (TypeKey(src[m][2]) = TagL /\ IsList(Val(src[m][2]))) =>
            BoolsIn(Lookup(out, TrimmedKey(src, m))) = BoolsOf(Val(src[m][2]).items)
       /\ (TypeKey(src[m][2]) = TagM /\ IsDict(Val(src[m][2]))) =>
            BoolFields(Val(src[m][2]).entries,
                       FieldsOf(Lookup(out, TrimmedKey(src, m))))

C7_BoolLiteralsDecodeFalseKept ==
  pc = "done" => BoolFields(input_json.entries, TopOut)

\* a map holding a false field and a list whose only element is false
C7_Witness ==
  /\ pc = "done"
  /\ result = List(<< Dict(<< <<<<"a">>,
                 Dict(<< <<<<"a">>, PyBool(FALSE)>>,
                         <<<<"b">>, List(<<PyBool(FALSE)>>)>> >>)>> >>) >>)

====
